---- MODULE Spec2Model ----
(***************************************************************************)
(* LibraryManager (music_assistant/managers/library.py): the sync_task     *)
(* run guard, the five per-media-type library syncs, the provider sync,    *)
(* the periodic sync of all providers and the playlist track edits.        *)
(*                                                                         *)
(* Every job is a coroutine of the event loop.  An action is the code a    *)
(* coroutine runs between two awaits; the collaborator calls (provider,    *)
(* cache, database, music) are the awaits and any of them may raise.       *)
(***************************************************************************)
EXTENDS Integers, Sequences, FiniteSets, TLC

\* ---- bounds of the model ------------------------------------------------
\* provider-side item ids are 1..MaxItem
MaxItem == 3
\* a provider listing holds at most MaxLen items
MaxLen == 2
\* jobs handed to the event loop (mass.add_job / direct calls) in one behaviour
MaxCalls == 2
\* changes of the provider catalog in one behaviour
MaxChanges == 1
\* item ids of tracks and of their provider entries are 1..MaxId
MaxId == 2
\* the quality of a provider entry is 1..MaxQuality
MaxQuality == 2
\* a track has at most MaxRefs entries in provider_ids
MaxRefs == 2
\* a playlist edit gets at most MaxTracks tracks
MaxTracks == 2

\* ---- the providers of the installation ----------------------------------
\* mass.get_providers(ProviderType.MUSIC_PROVIDER), in registration order
MusicProviders == <<"p1", "p2">>

\* a registered provider that is no music provider
OtherProviders == {"web"}

\* an id no provider is registered under
UnknownProviders == {"gone"}

RECURSIVE SeqToSet(_)
SeqToSet(s) == IF s = <<>> THEN {} ELSE {Head(s)} \cup SeqToSet(Tail(s))

MusicProviderIds == SeqToSet(MusicProviders)

ProviderIds == MusicProviderIds \cup OtherProviders \cup UnknownProviders

\* the desc argument of the five @sync_task decorators
SyncDescs == {"artists", "albums", "tracks", "playlists", "radios"}

\* the MediaType each sync passes to the database
MediaTypeOf(desc) ==
    CASE desc = "artists" -> "Artist"
      [] desc = "albums" -> "Album"
      [] desc = "tracks" -> "Track"
      [] desc = "playlists" -> "Playlist"
      [] desc = "radios" -> "Radio"

\* provider.supported_mediatypes
supported_mediatypes(prov_id) ==
    IF prov_id = "p1"
    THEN {"Artist", "Album", "Track", "Playlist", "Radio"}
    ELSE IF prov_id = "p2" THEN {"Album", "Artist", "Radio"} ELSE {}

\* mass.get_provider(prov_id): TRUE when a provider is registered under the id
get_provider(prov_id) == prov_id \in MusicProviderIds \cup OtherProviders

\* provider.type == ProviderType.MUSIC_PROVIDER
IsMusicProvider(prov_id) == prov_id \in MusicProviderIds

\* ---- items --------------------------------------------------------------
Items == 1..MaxItem

\* the listings a provider can return: up to MaxLen items, none listed twice
Listings ==
    UNION {{s \in [1..n -> Items] : \A i, k \in 1..n : i # k => s[i] # s[k]} :
           n \in 0..MaxLen}

\* what a provider lists when the program starts: a full listing that
\* starts with item 1
InitialListings == {listed \in Listings : Len(listed) = MaxLen /\ listed[1] = 1}

\* mass.music.async_get_artist / _album / _track / _playlist / _radio
\* (item_id, provider_id): the database item a provider item resolves to.
\* Several provider items can be versions of one database item.
DbIdOf(item_id) == (item_id + 1) \div 2

\* faulty variant: the key leaves out the provider
CacheKeyNoProvider(desc, provider_id) == <<"library", desc>>

\* cache_key = f"library_{desc}_{provider_id}"
CacheKey(desc, provider_id) == <<"library", desc, provider_id>>

\* `x in list`
InList(x, list) == \E i \in 1..Len(list) : list[i] = x

\* ---- the order of the syncs in async_music_provider_sync ----------------
\* faulty variant: the artists sync is moved to the front
SyncOrderArtistsFirst == <<"artists", "albums", "tracks", "playlists", "radios">>

SyncOrder == <<"albums", "tracks", "artists", "playlists", "radios">>

\* the next `if MediaType.X in provider.supported_mediatypes` that holds,
\* from position i on; Len(SyncOrder) + 1 when none does
RECURSIVE NextStep(_, _)
NextStep(prov_id, i) ==
    IF i > Len(SyncOrder) THEN i
    ELSE IF MediaTypeOf(SyncOrder[i]) \in supported_mediatypes(prov_id) THEN i
    ELSE NextStep(prov_id, i + 1)

\* the (provider, desc) pairs a sync can be called for
SyncPairs ==
    {pd \in MusicProviderIds \X SyncDescs :
        MediaTypeOf(pd[2]) \in supported_mediatypes(pd[1])}

\* ---- state --------------------------------------------------------------
VARIABLES
    running_sync_jobs,  \* LibraryManager.running_sync_jobs: list of (prov_id, desc)
    signal,             \* payloads of the EVENT_MUSIC_SYNC_STATUS events of the last step
    cache,              \* mass.cache: cache_key -> list of database ids
    library,            \* the library rows of mass.database: (db_id, media_type, provider)
    catalog,            \* what each provider lists now, per (provider, desc)
    changes,            \* number of catalog changes so far
    jobs,               \* the coroutines handed to the event loop; of a sync also the
                        \* calls it made (log) and the cache and rows it started from
    ncalls,             \* number of jobs started so far
    playlist,           \* the playlist mass.music.async_get_playlist(id, "database") finds
    playlist_tracks,    \* the tracks mass.music.async_get_playlist_tracks returns for it
    edit                \* the last async_add_/async_remove_playlist_tracks call

syncVars == <<running_sync_jobs, signal, cache, library, catalog, changes, jobs, ncalls>>

playlistVars == <<playlist, playlist_tracks, edit>>

vars == <<syncVars, playlistVars>>

JobIds == 1..MaxCalls

\* async_get_playlist finds no playlist (None)
NoPlaylist == [found |-> FALSE, is_editable |-> FALSE, provider |-> "", checksum |-> 0]

\* no playlist edit was called yet
NoEdit == [op |-> "none", tracks |-> <<>>, track_ids |-> <<>>, calls |-> <<>>,
           provider_result |-> "none", result |-> "none"]

\* a slot of the event loop no coroutine was started in yet
IdleJob ==
    [task |-> "idle", status |-> "idle", provs |-> <<>>, visited |-> <<>>,
     prov |-> "", step |-> 0, invoked |-> <<>>, pc |-> "none", desc |-> "",
     prev_db_ids |-> <<>>, cur_db_ids |-> <<>>, listing |-> <<>>,
     fetched |-> <<>>, todo |-> <<>>, log |-> <<>>, outcome |-> "none",
     failedAt |-> "none", before |-> <<>>, rows0 |-> {}]

Init ==
    /\ running_sync_jobs = <<>>
    /\ signal = <<>>
    /\ cache = <<>>
    /\ library = {}
    /\ \E listed \in InitialListings : catalog = [pd \in SyncPairs |-> listed]
    /\ changes = 0
    /\ jobs = [j \in JobIds |-> IdleJob]
    /\ ncalls = 0
    /\ playlist = NoPlaylist
    /\ playlist_tracks = <<>>
    /\ edit = NoEdit

\* ---- control flow of a job ----------------------------------------------
\* the coroutine returned
Done(job) == [job EXCEPT !.status = "done", !.pc = "none"]

RECURSIVE ProvidersLoop(_)

\* async_music_provider_sync returned
ProviderSyncReturn(job) ==
    IF job.task = "periodic" THEN ProvidersLoop(job) ELSE Done(job)

\* async_music_provider_sync(prov_id), up to its first sync call
async_music_provider_sync(job, prov_id) ==
    IF ~get_provider(prov_id) THEN ProviderSyncReturn(job)
    ELSE LET s == NextStep(prov_id, 1) IN
         IF s > Len(SyncOrder)
         THEN ProviderSyncReturn([job EXCEPT !.prov = prov_id])
         ELSE [job EXCEPT !.prov = prov_id, !.step = s,
                          !.desc = SyncOrder[s], !.pc = "call"]

\* the loop of __async_music_providers_sync over the music providers
ProvidersLoop(job) ==
    IF job.provs = <<>> THEN Done(job)
    ELSE async_music_provider_sync(
             [job EXCEPT !.provs = Tail(job.provs),
                         !.visited = Append(job.visited, Head(job.provs))],
             Head(job.provs))

\* a sync returned to its caller without an error
SyncReturn(job) ==
    IF job.task = "sync" THEN Done(job)
    ELSE LET s == NextStep(job.prov, job.step + 1) IN
         IF s > Len(SyncOrder) THEN ProviderSyncReturn([job EXCEPT !.step = s])
         ELSE [job EXCEPT !.step = s, !.desc = SyncOrder[s], !.pc = "call"]

\* mass.cache.async_get(cache_key, default=[])
async_get(cache_key) == IF cache_key \in DOMAIN cache THEN cache[cache_key] ELSE <<>>

\* mass.cache.async_set(cache_key, value)
async_set(cache_key, value) ==
    [k \in DOMAIN cache \cup {cache_key} |-> IF k = cache_key THEN value ELSE cache[k]]

\* the library rows of a media type and provider
LibraryRows(desc, provider_id) ==
    {row \in library : row[2] = MediaTypeOf(desc) /\ row[3] = provider_id}

\* ---- sync_task: the run guard -------------------------------------------
\* faulty variant: the entry is compared with prov_id alone, which never matches
already_running_never(sync_jobs, prov_id, desc) ==
    \E i \in 1..Len(sync_jobs) : sync_jobs[i] = <<prov_id>>

\* the loop over running_sync_jobs of async_wrapped: the job is already running
already_running(sync_jobs, prov_id, desc) ==
    \E i \in 1..Len(sync_jobs) : sync_jobs[i][1] = prov_id /\ sync_jobs[i][2] = desc

\* faulty variant: nothing is dropped
ListRemoveNothing(list, x) == list

\* list.remove(x): drops the first occurrence of x
RECURSIVE ListRemove(_, _)
ListRemove(list, x) ==
    IF list = <<>> THEN <<>>
    ELSE IF Head(list) = x THEN Tail(list)
    ELSE <<Head(list)>> \o ListRemove(Tail(list), x)

\* a job in its first state: the coroutine was handed to the event loop
NewJob(task) == [IdleJob EXCEPT !.task = task, !.status = "running"]

\* the slot the next job gets
NextJob == ncalls + 1

\* the periodic timer fired: one pass of __async_music_providers_sync
PeriodicSync ==
    /\ ncalls < MaxCalls
    /\ ncalls' = ncalls + 1
    /\ jobs' = [jobs EXCEPT ![NextJob] =
                   ProvidersLoop([NewJob("periodic") EXCEPT !.provs = MusicProviders])]
    /\ signal' = <<>>
    /\ UNCHANGED <<playlistVars, running_sync_jobs, cache, library, catalog, changes>>

\* mass_event(EVENT_PROVIDER_REGISTERED, prov_id)
mass_event(prov_id) ==
    /\ ncalls < MaxCalls
    /\ get_provider(prov_id)
    /\ ncalls' = ncalls + 1
    /\ jobs' = IF IsMusicProvider(prov_id)
               THEN [jobs EXCEPT ![NextJob] =
                        async_music_provider_sync(NewJob("provsync"), prov_id)]
               ELSE jobs
    /\ signal' = <<>>
    /\ UNCHANGED <<playlistVars, running_sync_jobs, cache, library, catalog, changes>>

\* a direct call of async_music_provider_sync(prov_id)
ProviderSyncCall(prov_id) ==
    /\ ncalls < MaxCalls
    /\ ncalls' = ncalls + 1
    /\ jobs' = [jobs EXCEPT ![NextJob] =
                   async_music_provider_sync(NewJob("provsync"), prov_id)]
    /\ signal' = <<>>
    /\ UNCHANGED <<playlistVars, running_sync_jobs, cache, library, catalog, changes>>

\* a direct call of async_library_<desc>_sync(prov_id)
DirectSyncCall(prov_id, desc) ==
    /\ ncalls < MaxCalls
    /\ ncalls' = ncalls + 1
    /\ jobs' = [jobs EXCEPT ![NextJob] =
                   [NewJob("sync") EXCEPT !.prov = prov_id, !.desc = desc,
                                          !.pc = "call"]]
    /\ signal' = <<>>
    /\ UNCHANGED <<playlistVars, running_sync_jobs, cache, library, catalog, changes>>

\* async_wrapped up to `await func(*args)`: the check of running_sync_jobs,
\* and the registration and the status event when the job is not running yet
SyncCall(j) ==
    LET job == jobs[j]
        called == [job EXCEPT !.invoked = Append(job.invoked, <<job.prov, job.desc>>)]
    IN
    /\ job.pc = "call"
    /\ IF already_running(running_sync_jobs, job.prov, job.desc)
       THEN /\ jobs' = [jobs EXCEPT ![j] =
                           SyncReturn([called EXCEPT !.outcome = "skipped"])]
            /\ signal' = <<>>
            /\ UNCHANGED running_sync_jobs
       ELSE /\ running_sync_jobs' = Append(running_sync_jobs, <<job.prov, job.desc>>)
            /\ signal' = <<running_sync_jobs'>>
            /\ jobs' = [jobs EXCEPT ![j] =
                           [called EXCEPT !.pc = "load", !.outcome = "running",
                                          !.prev_db_ids = <<>>, !.cur_db_ids = <<>>,
                                          !.listing = <<>>, !.fetched = <<>>,
                                          !.todo = <<>>, !.log = <<>>,
                                          !.failedAt = "none",
                                          !.before = async_get(CacheKey(job.desc, job.prov)),
                                          !.rows0 = LibraryRows(job.desc, job.prov)]]
    /\ UNCHANGED <<playlistVars, cache, library, catalog, changes, ncalls>>

\* ---- the five library syncs ---------------------------------------------
\* whether the sync calls async_add_to_library for a resolved item: the
\* tracks sync only when the id is not in prev_db_ids, the others always
AddsToLibrary(desc, db_id, prev_db_ids) ==
    desc # "tracks" \/ ~InList(db_id, prev_db_ids)

\* the listed playlists whose provider attribute is not the id of the
\* provider that lists them
ForeignPlaylists == {MaxItem}

\* the provider attribute of those playlists (`provider == "database"` is
\* what lines 131, 149, 303 and 365 test media items for)
ForeignProvider == "database"

\* playlist.provider of a playlist that provider_id lists: an attribute of
\* the listed item, set by whoever built the item
ItemProvider(item_id, provider_id) ==
    IF item_id \in ForeignPlaylists THEN ForeignProvider ELSE provider_id

\* the provider argument of async_add_to_library: the playlists sync passes
\* playlist.provider, the others provider_id
AddProvider(desc, item_id, provider_id) ==
    IF desc = "playlists" THEN ItemProvider(item_id, provider_id) ELSE provider_id

\* the albums and the playlists sync walk the tracks of every item
\* (async_get_album_tracks / async_get_playlist_tracks, async_match_track,
\* async_add_track) after it is added to the library
HasPrecache(desc) == desc \in {"albums", "playlists"}

\* faulty variant: the test of "process deletions" is inverted
PendingDeletionsInverted(prev_db_ids, cur_db_ids) ==
    SelectSeq(prev_db_ids, LAMBDA db_id : InList(db_id, cur_db_ids))

\* "process deletions": the ids of prev_db_ids, in order, that are not in
\* cur_db_ids; each gets an async_remove_from_library call
PendingDeletions(prev_db_ids, cur_db_ids) ==
    SelectSeq(prev_db_ids, LAMBDA db_id : ~InList(db_id, cur_db_ids))

\* the `for item in ...` loop ended: on to the deletions, then to the cache
ListingDone(job) ==
    LET todo == PendingDeletions(job.prev_db_ids, job.cur_db_ids) IN
    [job EXCEPT !.todo = todo, !.pc = IF todo = <<>> THEN "store" ELSE "deletions"]

\* faulty variant: the loop is left after its first round
NextItemOnlyFirst(job) ==
    IF job.listing = <<>> \/ job.cur_db_ids # <<>> THEN ListingDone(job)
    ELSE [job EXCEPT !.pc = "items"]

\* the head of the `for item in ...` loop
NextItem(job) ==
    IF job.listing = <<>> THEN ListingDone(job) ELSE [job EXCEPT !.pc = "items"]

\* faulty variant: the error is swallowed and the sync goes on to the deletions
RaiseSwallowed(job) == ListingDone(job)

\* a collaborator call raised: sync_task.async_wrapped (line 45),
\* async_music_provider_sync (lines 248-257) and __async_music_providers_sync
\* (lines 236-237) have no handler, so the coroutine ends with the error
Raise(job) ==
    [job EXCEPT !.status = "error", !.outcome = "failed", !.pc = "none"]

\* prev_db_ids = await self.mass.cache.async_get(cache_key, default=[])
Load(j) ==
    LET job == jobs[j] IN
    /\ job.pc = "load"
    /\ jobs' = [jobs EXCEPT ![j] =
                   [job EXCEPT !.prev_db_ids = async_get(CacheKey(job.desc, job.prov)),
                               !.pc = "fetch"]]
    /\ signal' = <<>>
    /\ UNCHANGED <<playlistVars, running_sync_jobs, cache, library, catalog, changes, ncalls>>

\* await music_provider.async_get_library_<desc>()
Fetch(j) ==
    LET job == jobs[j]
        listed == catalog[<<job.prov, job.desc>>]
    IN
    /\ job.pc = "fetch"
    /\ jobs' = [jobs EXCEPT ![j] =
                   NextItem([job EXCEPT !.listing = listed, !.fetched = listed])]
    /\ signal' = <<>>
    /\ UNCHANGED <<playlistVars, running_sync_jobs, cache, library, catalog, changes, ncalls>>

\* one round of the `for item in ...` loop: the item is resolved, its id is
\* appended to cur_db_ids and it is added to the library
SyncItem(j) ==
    LET job == jobs[j]
        item == Head(job.listing)
        db_id == DbIdOf(item)
        row == <<db_id, MediaTypeOf(job.desc), AddProvider(job.desc, item, job.prov)>>
        adds == AddsToLibrary(job.desc, db_id, job.prev_db_ids)
    IN
    /\ job.pc = "items"
    /\ library' = IF adds THEN library \cup {row} ELSE library
    /\ jobs' = [jobs EXCEPT ![j] =
                   NextItem([job EXCEPT
                       !.cur_db_ids = Append(job.cur_db_ids, db_id),
                       !.listing = Tail(job.listing),
                       !.log = IF adds THEN Append(job.log, <<"add">> \o row)
                               ELSE job.log])]
    /\ signal' = <<>>
    /\ UNCHANGED <<playlistVars, running_sync_jobs, cache, catalog, changes, ncalls>>

\* one async_remove_from_library call of "process deletions"
Remove(j) ==
    LET job == jobs[j]
        row == <<Head(job.todo), MediaTypeOf(job.desc), job.prov>>
        rest == Tail(job.todo)
    IN
    /\ job.pc = "deletions"
    /\ library' = library \ {row}
    /\ jobs' = [jobs EXCEPT ![j] =
                   [job EXCEPT !.todo = rest,
                               !.log = Append(job.log, <<"remove">> \o row),
                               !.pc = IF rest = <<>> THEN "store" ELSE "deletions"]]
    /\ signal' = <<>>
    /\ UNCHANGED <<playlistVars, running_sync_jobs, cache, catalog, changes, ncalls>>

\* await self.mass.cache.async_set(cache_key, cur_db_ids)
Store(j) ==
    LET job == jobs[j]
        cache_key == CacheKey(job.desc, job.prov)
    IN
    /\ job.pc = "store"
    /\ cache' = async_set(cache_key, job.cur_db_ids)
    /\ jobs' = [jobs EXCEPT ![j] =
                   [job EXCEPT !.log = Append(job.log, <<"set", cache_key>>),
                               !.pc = "end"]]
    /\ signal' = <<>>
    /\ UNCHANGED <<playlistVars, running_sync_jobs, library, catalog, changes, ncalls>>

\* async_wrapped after `await func(*args)`: the job is taken off
\* running_sync_jobs and the status event is sent
End(j) ==
    LET job == jobs[j] IN
    /\ job.pc = "end"
    /\ running_sync_jobs' = ListRemove(running_sync_jobs, <<job.prov, job.desc>>)
    /\ signal' = <<running_sync_jobs'>>
    /\ jobs' = [jobs EXCEPT ![j] = SyncReturn([job EXCEPT !.outcome = "finished"])]
    /\ UNCHANGED <<playlistVars, cache, library, catalog, changes, ncalls>>

\* the collaborator call the sync awaits raises (cache read, catalog fetch,
\* item resolution, store write, cache write)
Fail(j) ==
    LET job == jobs[j] IN
    /\ job.pc \in {"load", "fetch", "items", "deletions", "store"}
    /\ jobs' = [jobs EXCEPT ![j] = Raise([job EXCEPT !.failedAt = job.pc])]
    /\ signal' = <<>>
    /\ UNCHANGED <<playlistVars, running_sync_jobs, cache, library, catalog, changes, ncalls>>

\* the walk over the tracks of an album or playlist raises, after the item
\* was added to the library
FailPrecache(j) ==
    LET job == jobs[j]
        item == Head(job.listing)
        db_id == DbIdOf(item)
        row == <<db_id, MediaTypeOf(job.desc), AddProvider(job.desc, item, job.prov)>>
    IN
    /\ job.pc = "items"
    /\ HasPrecache(job.desc)
    /\ library' = library \cup {row}
    /\ jobs' = [jobs EXCEPT ![j] =
                   Raise([job EXCEPT !.cur_db_ids = Append(job.cur_db_ids, db_id),
                                     !.log = Append(job.log, <<"add">> \o row),
                                     !.failedAt = job.pc])]
    /\ signal' = <<>>
    /\ UNCHANGED <<playlistVars, running_sync_jobs, cache, catalog, changes, ncalls>>

\* the provider's library changes: it lists other items from now on.  A
\* change commutes with every step but the fetch of that provider and media
\* type, so the changes modelled are those right before such a fetch.
CatalogChange(pd, listed) ==
    /\ changes < MaxChanges
    /\ \E j \in JobIds : jobs[j].pc = "fetch" /\ <<jobs[j].prov, jobs[j].desc>> = pd
    /\ catalog[pd] # listed
    /\ catalog' = [catalog EXCEPT ![pd] = listed]
    /\ changes' = changes + 1
    /\ signal' = <<>>
    /\ UNCHANGED <<playlistVars, running_sync_jobs, cache, library, jobs, ncalls>>

\* the steps of a running sync
SyncStep(j) ==
    \/ SyncCall(j)
    \/ Load(j)
    \/ Fetch(j)
    \/ SyncItem(j)
    \/ Remove(j)
    \/ Store(j)
    \/ End(j)
    \/ Fail(j)
    \/ FailPrecache(j)

\* syncs called directly, while the providers' catalogs change
Next ==
    \/ \E pd \in SyncPairs : DirectSyncCall(pd[1], pd[2])
    \/ \E j \in JobIds : SyncStep(j)
    \/ \E pd \in SyncPairs, listed \in Listings : CatalogChange(pd, listed)

Spec == Init /\ [][Next]_vars

\* the jobs of the event loop: the periodic sync, the provider syncs started
\* by a registration or directly, and direct syncs, while a provider's
\* library can be emptied
NextJobs ==
    \/ PeriodicSync
    \/ \E prov_id \in ProviderIds : mass_event(prov_id)
    \/ \E prov_id \in ProviderIds : ProviderSyncCall(prov_id)
    \/ \E pd \in SyncPairs : DirectSyncCall(pd[1], pd[2])
    \/ \E j \in JobIds : SyncStep(j)
    \/ \E pd \in SyncPairs : CatalogChange(pd, <<>>)

SpecJobs == Init /\ [][NextJobs]_vars

\* ---- a restart of the service --------------------------------------------
\* the coroutine belonged to a process that ended
Lost(job) ==
    IF job.status = "idle" THEN job ELSE [job EXCEPT !.status = "lost", !.pc = "none"]

\* the service is started again after a sync ended with an error:
\* LibraryManager.__init__ makes a new, empty running_sync_jobs, the
\* coroutines of the old process are gone, and the cache and the database,
\* which are kept by their own stores, hold what they held
Restart ==
    /\ \E j \in JobIds : jobs[j].status = "error"
    /\ running_sync_jobs' = <<>>
    /\ jobs' = [j \in JobIds |-> Lost(jobs[j])]
    /\ signal' = <<>>
    /\ UNCHANGED <<playlistVars, cache, library, catalog, changes, ncalls>>

\* syncs called directly, while the providers' catalogs change and the
\* service is restarted after a failure
NextRestart ==
    \/ \E pd \in SyncPairs : DirectSyncCall(pd[1], pd[2])
    \/ \E j \in JobIds : SyncStep(j)
    \/ \E pd \in SyncPairs, listed \in Listings : CatalogChange(pd, listed)
    \/ Restart

SpecRestart == Init /\ [][NextRestart]_vars

\* ---- playlist edits -----------------------------------------------------
\* the providers a playlist or a track version can be on; "file" takes uris
\* of all providers
TrackProviders == {"file", "spotify"}

TrackIds == 1..MaxId

\* an entry of track.provider_ids
ProviderRefs == [provider : TrackProviders, item_id : TrackIds, quality : 1..MaxQuality]

\* the provider_ids lists of a track: its versions have different item ids
ProviderRefLists ==
    UNION {{l \in [1..n -> ProviderRefs] :
               \A i, k \in 1..n : i # k => l[i].item_id # l[k].item_id} :
           n \in 0..MaxRefs}

Tracks == [item_id : TrackIds, provider_ids : ProviderRefLists]

\* the `tracks` argument of a playlist edit
TrackLists == UNION {[1..n -> Tracks] : n \in 0..MaxTracks}

\* the tracks a playlist can hold when the edit is called: none, or one
\* track with one entry on the playlist's provider
ExistingTracks(provider) ==
    {<<>>} \cup
    {<<[item_id |-> a,
        provider_ids |-> <<[provider |-> provider, item_id |-> b, quality |-> 1]>>]>> :
         a \in TrackIds, b \in TrackIds}

\* an item id as it is passed to the provider
PlainId(item_id) == <<"", item_id>>

\* uri = f"{track_version.provider}://{track_version.item_id}"
Uri(provider, item_id) == <<provider, item_id>>

\* [i.item_id for i in item.provider_ids]
RECURSIVE RefItemIds(_)
RefItemIds(provider_ids) ==
    IF provider_ids = <<>> THEN <<>>
    ELSE <<Head(provider_ids).item_id>> \o RefItemIds(Tail(provider_ids))

\* cur_playlist_track_ids: of every track of the playlist its item_id and the
\* item ids of its provider_ids
RECURSIVE cur_playlist_track_ids(_)
cur_playlist_track_ids(items) ==
    IF items = <<>> THEN <<>>
    ELSE <<Head(items).item_id>> \o RefItemIds(Head(items).provider_ids)
             \o cur_playlist_track_ids(Tail(items))

\* faulty variant: only the track's own item_id is looked up
already_exists_own_id(track, cur_ids) == InList(track.item_id, cur_ids)

\* the duplicate check of async_add_playlist_tracks
already_exists(track, cur_ids) ==
    \/ InList(track.item_id, cur_ids)
    \/ \E i \in 1..Len(track.provider_ids) : InList(track.provider_ids[i].item_id, cur_ids)

\* sorted(..., key=lambda x: x.quality, reverse=True): a stable sort, entries
\* of equal quality keep their order
RECURSIVE InsertByQuality(_, _)
InsertByQuality(sorted, ref) ==
    IF sorted = <<>> THEN <<ref>>
    ELSE IF Head(sorted).quality >= ref.quality
         THEN <<Head(sorted)>> \o InsertByQuality(Tail(sorted), ref)
         ELSE <<ref>> \o sorted

\* faulty variant: the versions are left in the order of provider_ids
SortedByQualityUnsorted(provider_ids) == provider_ids

RECURSIVE SortedByQuality(_)
SortedByQuality(provider_ids) ==
    IF provider_ids = <<>> THEN <<>>
    ELSE InsertByQuality(SortedByQuality(SubSeq(provider_ids, 1, Len(provider_ids) - 1)),
                         provider_ids[Len(provider_ids)])

\* the `for track_version in sorted(...)` loop: what is appended to
\* track_ids_to_add for one track
RECURSIVE QueuedFor(_, _)
QueuedFor(versions, playlist_provider) ==
    IF versions = <<>> THEN <<>>
    ELSE IF Head(versions).provider = playlist_provider
         THEN <<PlainId(Head(versions).item_id)>>
         ELSE IF playlist_provider = "file"
              THEN <<Uri(Head(versions).provider, Head(versions).item_id)>>
              ELSE QueuedFor(Tail(versions), playlist_provider)

\* track_ids_to_add of async_add_playlist_tracks
RECURSIVE track_ids_to_add(_, _, _)
track_ids_to_add(tracks, cur_ids, playlist_provider) ==
    IF tracks = <<>> THEN <<>>
    ELSE (IF already_exists(Head(tracks), cur_ids) THEN <<>>
          ELSE QueuedFor(SortedByQuality(Head(tracks).provider_ids), playlist_provider))
         \o track_ids_to_add(Tail(tracks), cur_ids, playlist_provider)

\* faulty variant: only the first entry on the playlist's provider is taken
SameProviderIdsFirstOnly(provider_ids, playlist_provider) ==
    LET own == SelectSeq(provider_ids, LAMBDA r : r.provider = playlist_provider) IN
    IF own = <<>> THEN <<>> ELSE <<PlainId(own[1].item_id)>>

\* the item ids of the entries of provider_ids on the playlist's provider
RECURSIVE SameProviderIds(_, _)
SameProviderIds(provider_ids, playlist_provider) ==
    IF provider_ids = <<>> THEN <<>>
    ELSE (IF Head(provider_ids).provider = playlist_provider
          THEN <<PlainId(Head(provider_ids).item_id)>> ELSE <<>>)
         \o SameProviderIds(Tail(provider_ids), playlist_provider)

\* track_ids_to_remove of async_remove_playlist_tracks
RECURSIVE track_ids_to_remove(_, _)
track_ids_to_remove(tracks, playlist_provider) ==
    IF tracks = <<>> THEN <<>>
    ELSE SameProviderIds(Head(tracks).provider_ids, playlist_provider)
         \o track_ids_to_remove(Tail(tracks), playlist_provider)

\* faulty variant: is_editable is not looked at
CanEditAnyFound(pl) == pl.found

\* `if not playlist or not playlist.is_editable`
CanEdit(pl) == pl.found /\ pl.is_editable

\* faulty variant: the provider is called also with an empty list
TruthyAlways(list) == TRUE

\* `if track_ids_to_add:` / `if track_ids_to_remove:`
Truthy(list) == list # <<>>

\* async_add_playlist_tracks(db_playlist_id, tracks)
AddPlaylistTracks(tracks) ==
    /\ edit.op = "none"
    /\ IF ~CanEdit(playlist)
       THEN /\ edit' = [op |-> "add", tracks |-> tracks, track_ids |-> <<>>,
                        calls |-> <<"get_playlist">>, provider_result |-> "none",
                        result |-> "False"]
            /\ UNCHANGED playlist
       ELSE LET ids == track_ids_to_add(tracks, cur_playlist_track_ids(playlist_tracks),
                                        playlist.provider)
            IN IF Truthy(ids)
               THEN /\ \E provider_result \in {"True", "False"} :
                          edit' = [op |-> "add", tracks |-> tracks, track_ids |-> ids,
                                   calls |-> <<"get_playlist", "get_playlist_tracks",
                                               "update_playlist", "add_playlist_tracks">>,
                                   provider_result |-> provider_result,
                                   result |-> provider_result]
                    /\ playlist' = [playlist EXCEPT !.checksum = playlist.checksum + 1]
               ELSE /\ edit' = [op |-> "add", tracks |-> tracks, track_ids |-> <<>>,
                                calls |-> <<"get_playlist", "get_playlist_tracks">>,
                                provider_result |-> "none", result |-> "False"]
                    /\ UNCHANGED playlist
    /\ UNCHANGED <<syncVars, playlist_tracks>>

\* async_remove_playlist_tracks(db_playlist_id, tracks)
RemovePlaylistTracks(tracks) ==
    /\ edit.op = "none"
    /\ IF ~CanEdit(playlist)
       THEN /\ edit' = [op |-> "remove", tracks |-> tracks, track_ids |-> <<>>,
                        calls |-> <<"get_playlist">>, provider_result |-> "none",
                        result |-> "False"]
            /\ UNCHANGED playlist
       ELSE LET ids == track_ids_to_remove(tracks, playlist.provider)
            IN IF Truthy(ids)
               THEN /\ \E provider_result \in {"True", "False"} :
                          edit' = [op |-> "remove", tracks |-> tracks, track_ids |-> ids,
                                   calls |-> <<"get_playlist", "update_playlist",
                                               "remove_playlist_tracks">>,
                                   provider_result |-> provider_result,
                                   result |-> provider_result]
                    /\ playlist' = [playlist EXCEPT !.checksum = playlist.checksum + 1]
               ELSE /\ edit' = [op |-> "remove", tracks |-> tracks, track_ids |-> <<>>,
                                calls |-> <<"get_playlist">>,
                                provider_result |-> "none", result |-> "None"]
                    /\ UNCHANGED playlist
    /\ UNCHANGED <<syncVars, playlist_tracks>>

\* the playlists an edit can be called for: none, one that is not editable,
\* an editable one on either provider, with the tracks it holds
InitPlaylist ==
    /\ running_sync_jobs = <<>>
    /\ signal = <<>>
    /\ cache = <<>>
    /\ library = {}
    /\ catalog = [pd \in SyncPairs |-> <<>>]
    /\ changes = 0
    /\ jobs = [j \in JobIds |-> IdleJob]
    /\ ncalls = 0
    /\ edit = NoEdit
    /\ \/ playlist = NoPlaylist /\ playlist_tracks = <<>>
       \/ \E provider \in TrackProviders, is_editable \in BOOLEAN :
              /\ playlist = [found |-> TRUE, is_editable |-> is_editable,
                             provider |-> provider, checksum |-> 0]
              /\ playlist_tracks \in ExistingTracks(provider)

\* one edit is called, with any list of tracks
AddCall == edit.op = "none" /\ \E tracks \in TrackLists : AddPlaylistTracks(tracks)

RemoveCall == edit.op = "none" /\ \E tracks \in TrackLists : RemovePlaylistTracks(tracks)

NextPlaylist == AddCall \/ RemoveCall

SpecPlaylist == InitPlaylist /\ [][NextPlaylist]_vars

\* ---- properties ---------------------------------------------------------
\* the positions of a sync between its registration and its `remove`
RunPcs == {"load", "fetch", "items", "deletions", "store", "end"}

\* the sync of the job is executing
InFlight(job) == job.pc \in RunPcs

\* the job executes the sync of the pair
InFlightFor(job, pd) == InFlight(job) /\ <<job.prov, job.desc>> = pd

\* the database ids items can resolve to
DbIds == {DbIdOf(item_id) : item_id \in Items}

\* the database ids a listing resolves to, in listing order
ResolvedIds(listed) == [i \in 1..Len(listed) |-> DbIdOf(listed[i])]

\* number of occurrences of x in a list
Count(list, x) == Cardinality({i \in 1..Len(list) : list[i] = x})

\* number of async_add_to_library / async_remove_from_library calls of a log
CallsOf(log, op) == Cardinality({i \in 1..Len(log) : log[i][1] = op})

\* number of calls of a log with operation op for database id db_id
CallsFor(log, op, db_id) ==
    Cardinality({i \in 1..Len(log) : log[i][1] = op /\ log[i][2] = db_id})

\* C1: running_sync_jobs never holds two entries for one (provider, desc)
\* pair, whatever the interleaving of periodic, registration-triggered and
\* direct sync calls.
C1_AtMostOneEntry ==
    \A i, k \in 1..Len(running_sync_jobs) :
        i # k => running_sync_jobs[i] # running_sync_jobs[k]

\* two jobs called the sync of one pair, and the list holds the entry of
\* that pair next to another one
C1_Witness ==
    /\ Len(running_sync_jobs) >= 2
    /\ \E j, k \in JobIds :
           /\ j # k
           /\ \E i \in 1..Len(running_sync_jobs) :
                  /\ running_sync_jobs[i] \in SeqToSet(jobs[j].invoked)
                  /\ running_sync_jobs[i] \in SeqToSet(jobs[k].invoked)

\* C2: a sync call for a pair whose sync is in flight in another job returns
\* without an error and without entering the sync: it leaves
\* running_sync_jobs, the cache and the library as they are, makes no call,
\* sends no status event, and one sync of the pair is executing afterwards.
C2_DuplicateCallIsNoOp ==
    [][\A j \in JobIds :
          LET pd == <<jobs[j].prov, jobs[j].desc>> IN
          (/\ jobs[j].pc = "call"
           /\ jobs'[j] # jobs[j]
           /\ \E k \in JobIds \ {j} : InFlightFor(jobs[k], pd))
          => /\ jobs'[j].outcome = "skipped"
             /\ jobs'[j].status # "error"
             /\ ~InFlight(jobs'[j])
             /\ jobs'[j].log = jobs[j].log
             /\ jobs'[j].prev_db_ids = jobs[j].prev_db_ids
             /\ jobs'[j].fetched = jobs[j].fetched
             /\ running_sync_jobs' = running_sync_jobs
             /\ cache' = cache
             /\ library' = library
             /\ signal' = <<>>
             /\ Cardinality({k \in JobIds : InFlightFor(jobs'[k], pd)}) = 1]_vars

\* a call was skipped for the pair whose sync another job is executing
C2_Witness ==
    \E j, k \in JobIds :
        /\ j # k
        /\ jobs[j].outcome = "skipped"
        /\ jobs[j].invoked # <<>>
        /\ InFlightFor(jobs[k], jobs[j].invoked[Len(jobs[j].invoked)])

\* C3 as stated: a sync that consumed the whole listing made exactly one
\* remove call for each id of the prior list that the listing does not
\* resolve to, none for any other id, and stored the resolved ids.
C3_ExactlyOneRemoval ==
    \A j \in JobIds :
        jobs[j].pc = "end" =>
            LET job == jobs[j]
                cur == ResolvedIds(job.fetched)
            IN /\ \A db_id \in DbIds :
                      CallsFor(job.log, "remove", db_id) =
                          IF InList(db_id, job.before) /\ ~InList(db_id, cur)
                          THEN 1 ELSE 0
               /\ async_get(CacheKey(job.desc, job.prov)) = cur

\* C3 amended: a sync that consumed the whole listing made, for each id of
\* the prior list that the listing does not resolve to, one remove call per
\* occurrence of the id in the prior list (so at least one), none for any
\* other id, and stored the resolved ids, in listing order, as the new list.
C3_RemovalPerOccurrence ==
    \A j \in JobIds :
        jobs[j].pc = "end" =>
            LET job == jobs[j]
                cur == ResolvedIds(job.fetched)
            IN /\ \A db_id \in DbIds :
                      CallsFor(job.log, "remove", db_id) =
                          IF InList(db_id, job.before) /\ ~InList(db_id, cur)
                          THEN Count(job.before, db_id) ELSE 0
               /\ \A i \in 1..Len(job.log) :
                      job.log[i][1] = "remove" =>
                          /\ job.log[i][3] = MediaTypeOf(job.desc)
                          /\ job.log[i][4] = job.prov
               /\ async_get(CacheKey(job.desc, job.prov)) = cur

\* the empty-catalog purge: a sync with a non-empty prior list got an empty
\* listing, removed and stored
C3_Witness ==
    \E j \in JobIds :
        /\ jobs[j].pc = "end"
        /\ jobs[j].fetched = <<>>
        /\ jobs[j].before # <<>>
        /\ CallsOf(jobs[j].log, "remove") > 0

\* C4 as stated: the second of two syncs of a pair with the same listing
\* makes no add and no remove call and stores the list it loaded.
C4_SecondRunMakesNoCalls ==
    \A a, b \in JobIds :
        (/\ a # b
         /\ jobs[a].task = "sync" /\ jobs[b].task = "sync"
         /\ jobs[a].prov = jobs[b].prov /\ jobs[a].desc = jobs[b].desc
         /\ jobs[a].outcome = "finished"
         /\ jobs[b].pc = "end"
         /\ jobs[b].fetched = jobs[a].fetched)
        => /\ CallsOf(jobs[b].log, "add") = 0
           /\ CallsOf(jobs[b].log, "remove") = 0
           /\ async_get(CacheKey(jobs[b].desc, jobs[b].prov)) = jobs[b].before

\* C5: a sync that failed before its listing was fully processed made no
\* remove call and no cache write, and the cached list of its pair is the
\* one it started from.
C5_FailureKeepsPriorSet ==
    \A j \in JobIds :
        jobs[j].failedAt \in {"load", "fetch", "items"} =>
            LET job == jobs[j] IN
            /\ CallsOf(job.log, "remove") = 0
            /\ CallsOf(job.log, "set") = 0
            /\ job.pc \notin {"deletions", "store", "end"}
            /\ job.outcome # "finished"
            /\ async_get(CacheKey(job.desc, job.prov)) = job.before

\* a sync failed in the middle of a listing that lacks an id of its prior list
C5_Witness ==
    \E j \in JobIds :
        /\ jobs[j].failedAt = "items"
        /\ jobs[j].outcome = "failed"
        /\ PendingDeletions(jobs[j].prev_db_ids, jobs[j].cur_db_ids) # <<>>

\* C6 as stated: every entry of running_sync_jobs belongs to a sync that is
\* executing (the entry of a failed sync is cleared).
C6_RegistryOnlyRunning ==
    \A i \in 1..Len(running_sync_jobs) :
        \E j \in JobIds : InFlightFor(jobs[j], running_sync_jobs[i])

\* C7 as stated: after a sync failed part-way through the listing, the
\* library rows and the cached list of its pair are those it started from.
C7_FailureLeavesRows ==
    \A j \in JobIds :
        jobs[j].failedAt = "items" =>
            /\ LibraryRows(jobs[j].desc, jobs[j].prov) = jobs[j].rows0
            /\ async_get(CacheKey(jobs[j].desc, jobs[j].prov)) = jobs[j].before

\* the pairs a job called the sync of
Invoked(job) == SeqToSet(job.invoked)

\* C8 as stated: a provider sync that ended, with or without a failed sync,
\* called the sync of every media type the provider supports, and a
\* periodic pass that ended did so for every music provider.
C8_FailureDoesNotStopOthers ==
    \A j \in JobIds :
        jobs[j].status \in {"done", "error"} =>
            /\ jobs[j].task = "provsync" /\ IsMusicProvider(jobs[j].prov) =>
                   \A pd \in SyncPairs : pd[1] = jobs[j].prov => pd \in Invoked(jobs[j])
            /\ jobs[j].task = "periodic" =>
                   \A pd \in SyncPairs : pd \in Invoked(jobs[j])

\* position of a desc in an order
Pos(order, desc) == CHOOSE i \in 1..Len(order) : order[i] = desc

\* the syncs a job called for one provider were called in the given order
CalledInOrder(job, order) ==
    \A i, k \in 1..Len(job.invoked) :
        (i < k /\ job.invoked[i][1] = job.invoked[k][1]) =>
            Pos(order, job.invoked[i][2]) < Pos(order, job.invoked[k][2])

\* C9 as stated: the syncs of a provider are called in the order artists,
\* albums, tracks, playlists, radios.
C9_ArtistsFirst ==
    \A j \in JobIds :
        CalledInOrder(jobs[j], <<"artists", "albums", "tracks", "playlists", "radios">>)

\* C9 amended: the syncs of a provider are called in the order albums,
\* tracks, artists, playlists, radios (the albums sync of a provider starts
\* before its artists sync), and a provider sync that returned called the
\* sync of every media type the provider supports.
C9_AlbumsFirst ==
    \A j \in JobIds :
        /\ CalledInOrder(jobs[j], <<"albums", "tracks", "artists", "playlists", "radios">>)
        /\ (jobs[j].status = "done" /\ jobs[j].task = "provsync"
              /\ IsMusicProvider(jobs[j].prov)) =>
               \A pd \in SyncPairs : pd[1] = jobs[j].prov => pd \in Invoked(jobs[j])

\* a provider sync of the provider with all five media types returned
C9_Witness ==
    \E j \in JobIds :
        /\ jobs[j].task = "provsync"
        /\ jobs[j].status = "done"
        /\ jobs[j].prov = "p1"
        /\ Len(jobs[j].invoked) = Len(SyncOrder)

\* the item ids and provider entry ids of the tracks the playlist holds
ExistingIds ==
    {playlist_tracks[i].item_id : i \in 1..Len(playlist_tracks)} \cup
    UNION {{playlist_tracks[i].provider_ids[k].item_id :
               k \in 1..Len(playlist_tracks[i].provider_ids)} :
           i \in 1..Len(playlist_tracks)}

\* the track's item id or the item id of one of its provider entries is
\* among the ids of the playlist's tracks
IsDuplicate(track) ==
    \/ track.item_id \in ExistingIds
    \/ \E k \in 1..Len(track.provider_ids) : track.provider_ids[k].item_id \in ExistingIds

\* the entry was queued for a provider entry of the track
QueuedFrom(entry, track) ==
    \E k \in 1..Len(track.provider_ids) :
        \/ entry = PlainId(track.provider_ids[k].item_id)
        \/ entry = Uri(track.provider_ids[k].provider, track.provider_ids[k].item_id)

\* C10: async_add_playlist_tracks on an editable playlist queues nothing for
\* a track whose item id or provider entry id is among the ids of the
\* playlist's tracks: every queued entry comes from a track that is no
\* duplicate, at most one per such track; when all tracks are duplicates
\* nothing is queued, the checksum is not updated, the provider is not
\* called and the result is False.
C10_DuplicatesNotQueued ==
    (edit.op = "add" /\ playlist.found /\ playlist.is_editable) =>
        LET fresh == {i \in 1..Len(edit.tracks) : ~IsDuplicate(edit.tracks[i])} IN
        /\ Len(edit.track_ids) <= Cardinality(fresh)
        /\ \A n \in 1..Len(edit.track_ids) :
               \E i \in fresh : QueuedFrom(edit.track_ids[n], edit.tracks[i])
        /\ fresh = {} =>
               /\ edit.track_ids = <<>>
               /\ edit.result = "False"
               /\ playlist.checksum = 0
               /\ ~InList("update_playlist", edit.calls)
               /\ ~InList("add_playlist_tracks", edit.calls)

\* an add was called with tracks that are all duplicates, one of them only
\* by the id of a provider entry
C10_Witness ==
    /\ edit.op = "add"
    /\ playlist.found /\ playlist.is_editable
    /\ edit.tracks # <<>>
    /\ \A i \in 1..Len(edit.tracks) : IsDuplicate(edit.tracks[i])
    /\ \E i \in 1..Len(edit.tracks) : edit.tracks[i].item_id \notin ExistingIds
    /\ edit.result = "False"

\* C11: async_add_playlist_tracks and async_remove_playlist_tracks called for
\* a playlist that is missing or not editable return False and do nothing
\* else: the playlist's tracks are not read, nothing is queued, the checksum
\* is not updated and the provider is not called.
C11_NotEditableFails ==
    (edit.op # "none" /\ (~playlist.found \/ ~playlist.is_editable)) =>
        /\ edit.result = "False"
        /\ edit.calls = <<"get_playlist">>
        /\ edit.track_ids = <<>>
        /\ playlist.checksum = 0

\* a remove was called for a playlist that is not editable, with a track
\* that has an entry on the playlist's provider
C11_Witness ==
    /\ edit.op = "remove"
    /\ playlist.found /\ ~playlist.is_editable
    /\ \E i \in 1..Len(edit.tracks) :
           \E k \in 1..Len(edit.tracks[i].provider_ids) :
               edit.tracks[i].provider_ids[k].provider = playlist.provider
    /\ edit.result = "False"

\* the provider entries of a track
Refs(track) == {track.provider_ids[k] : k \in 1..Len(track.provider_ids)}

\* the entries of highest quality among a set of provider entries
Best(refs) == {r \in refs : \A o \in refs : o.quality <= r.quality}

\* the tracks of an add that are no duplicates and have a provider entry
FreshTracks == SelectSeq(edit.tracks, LAMBDA t : ~IsDuplicate(t) /\ t.provider_ids # <<>>)

\* C12 as stated: on a "file" playlist every track that is no duplicate
\* queues one entry: the id of its best entry on "file" when it has one,
\* and only otherwise the uri of its entry of highest quality.
C12_UriOnlyWithoutOwnRef ==
    (edit.op = "add" /\ playlist.found /\ playlist.is_editable
       /\ playlist.provider = "file") =>
        /\ Len(edit.track_ids) = Len(FreshTracks)
        /\ \A n \in 1..Len(FreshTracks) :
               n <= Len(edit.track_ids) =>
                   LET own == {r \in Refs(FreshTracks[n]) : r.provider = "file"} IN
                   IF own # {}
                   THEN \E r \in Best(own) : edit.track_ids[n] = PlainId(r.item_id)
                   ELSE \E r \in Best(Refs(FreshTracks[n])) :
                            edit.track_ids[n] = Uri(r.provider, r.item_id)

\* the entries of a track on the playlist's provider
OwnRefs(track) == {r \in Refs(track) : r.provider = playlist.provider}

\* the tracks of an add that are no duplicates and have an entry on the
\* playlist's provider
FreshOwnTracks == SelectSeq(edit.tracks, LAMBDA t : ~IsDuplicate(t) /\ OwnRefs(t) # {})

\* C13: on an editable playlist of a provider other than "file",
\* async_add_playlist_tracks queues, in the order of the tracks, one id for
\* every track that is no duplicate and has an entry on the playlist's
\* provider: the item id of an entry of highest quality among the entries on
\* that provider; it queues nothing for a track without such an entry.
C13_BestOwnRefQueued ==
    (edit.op = "add" /\ playlist.found /\ playlist.is_editable
       /\ playlist.provider # "file") =>
        /\ Len(edit.track_ids) = Len(FreshOwnTracks)
        /\ \A n \in 1..Len(edit.track_ids) :
               \E r \in Best(OwnRefs(FreshOwnTracks[n])) :
                   edit.track_ids[n] = PlainId(r.item_id)

\* an add on a "spotify" playlist with a track whose two "spotify" entries
\* differ in quality, the better one listed last, and with a track that has
\* no "spotify" entry
C13_Witness ==
    /\ edit.op = "add"
    /\ playlist.found /\ playlist.is_editable
    /\ playlist.provider = "spotify"
    /\ edit.track_ids # <<>>
    /\ \E i \in 1..Len(edit.tracks) :
           LET t == edit.tracks[i] IN
           /\ ~IsDuplicate(t)
           /\ Len(t.provider_ids) = 2
           /\ t.provider_ids[1].provider = "spotify"
           /\ t.provider_ids[2].provider = "spotify"
           /\ t.provider_ids[1].quality < t.provider_ids[2].quality
    /\ \E i \in 1..Len(edit.tracks) :
           ~IsDuplicate(edit.tracks[i]) /\ OwnRefs(edit.tracks[i]) = {}
               /\ edit.tracks[i].provider_ids # <<>>

\* the provider call of an edit
ProviderCall(op) == IF op = "add" THEN "add_playlist_tracks" ELSE "remove_playlist_tracks"

\* the call sequence makes `first` before `second`
CalledBefore(calls, first, second) ==
    \E i, k \in 1..Len(calls) : i < k /\ calls[i] = first /\ calls[k] = second

\* C14: an edit of an editable playlist updates the checksum exactly when it
\* queued an id, calls the provider exactly then, and updates the checksum
\* before that call; async_add_playlist_tracks returns the result of the
\* provider call, and False when it queued nothing.
C14_ChecksumIffQueued ==
    (edit.op # "none" /\ playlist.found /\ playlist.is_editable) =>
        LET queued == edit.track_ids # <<>> IN
        /\ playlist.checksum = (IF queued THEN 1 ELSE 0)
        /\ Count(edit.calls, "update_playlist") = (IF queued THEN 1 ELSE 0)
        /\ Count(edit.calls, ProviderCall(edit.op)) = (IF queued THEN 1 ELSE 0)
        /\ queued => CalledBefore(edit.calls, "update_playlist", ProviderCall(edit.op))
        /\ queued <=> edit.provider_result # "none"
        /\ edit.op = "add" =>
               edit.result = (IF queued THEN edit.provider_result ELSE "False")

\* an add whose provider call returned True, after the checksum update
C14_Witness ==
    /\ edit.op = "add"
    /\ playlist.found /\ playlist.is_editable
    /\ edit.track_ids # <<>>
    /\ playlist.checksum = 1
    /\ edit.provider_result = "True"
    /\ edit.result = "True"

\* the positions <<track, entry>> of the entries of the given tracks that
\* are on the playlist's provider
OwnRefPositions ==
    {p \in (1..Len(edit.tracks)) \X (1..MaxRefs) :
        /\ p[2] <= Len(edit.tracks[p[1]].provider_ids)
        /\ edit.tracks[p[1]].provider_ids[p[2]].provider = playlist.provider}

\* C15: async_remove_playlist_tracks on an editable playlist hands the
\* provider the item id of every entry, of every given track, that is on
\* the playlist's provider (all entries of a track on that provider, once
\* per entry), and no id of an entry on another provider and no uri.
C15_AllOwnRefsRemoved ==
    (edit.op = "remove" /\ playlist.found /\ playlist.is_editable) =>
        /\ Len(edit.track_ids) = Cardinality(OwnRefPositions)
        /\ \A x \in SeqToSet(edit.track_ids) \cup {PlainId(i) : i \in TrackIds} :
               Count(edit.track_ids, x) =
                   Cardinality({p \in OwnRefPositions :
                       PlainId(edit.tracks[p[1]].provider_ids[p[2]].item_id) = x})

\* a remove with a track that has two entries on the playlist's provider and
\* a track with an entry on another provider
C15_Witness ==
    /\ edit.op = "remove"
    /\ playlist.found /\ playlist.is_editable
    /\ Len(edit.track_ids) = 2
    /\ InList("remove_playlist_tracks", edit.calls)
    /\ \E i \in 1..Len(edit.tracks) : Cardinality(OwnRefs(edit.tracks[i])) = 2
    /\ \E i \in 1..Len(edit.tracks) :
           \E r \in Refs(edit.tracks[i]) : r.provider # playlist.provider

\* the database ids of the library rows of a media type and provider
LibraryIds(desc, provider_id) == {row[1] : row \in LibraryRows(desc, provider_id)}

\* C16 as stated: when a sync has consumed its listing, processed the
\* deletions and written the cache, every library row of its pair is for an
\* id the listing resolves to, whatever runs came before it: no id added by
\* an earlier run and absent from the listing is still in the library.
C16_NoStaleMember ==
    \A j \in JobIds :
        jobs[j].pc = "end" =>
            LibraryIds(jobs[j].desc, jobs[j].prov) \subseteq
                {DbIdOf(jobs[j].fetched[i]) : i \in 1..Len(jobs[j].fetched)}

\* C17 as stated: one call of async_add_playlist_tracks hands the provider
\* no id or uri twice, also when the same track, or two tracks with a
\* common provider entry, are among the given tracks.
C17_NoIdQueuedTwice ==
    edit.op = "add" =>
        \A i, k \in 1..Len(edit.track_ids) :
            i # k => edit.track_ids[i] # edit.track_ids[k]

\* C18 as stated: every async_add_to_library and async_remove_from_library
\* call of a sync is made with the media type of the sync and with the
\* provider id the sync was called for, for all five syncs.
C18_CallsKeyedByPair ==
    \A j \in JobIds :
        \A i \in 1..Len(jobs[j].log) :
            jobs[j].log[i][1] \in {"add", "remove"} =>
                /\ jobs[j].log[i][3] = MediaTypeOf(jobs[j].desc)
                /\ jobs[j].log[i][4] = jobs[j].prov

\* C19: the step that registers a sync (the call found no entry for its
\* pair) and the step that takes a finished sync off running_sync_jobs each
\* send one EVENT_MUSIC_SYNC_STATUS event whose payload is running_sync_jobs
\* as it is after the step: with the new (prov_id, desc) entry added to the
\* entries held before, respectively with that entry gone and all others
\* kept.
C19_StatusEventCarriesRegistry ==
    [][\A j \in JobIds :
          LET pd == <<jobs[j].prov, jobs[j].desc>> IN
          /\ (jobs[j].pc = "call" /\ jobs'[j].pc = "load") =>
                 /\ signal' = <<running_sync_jobs'>>
                 /\ running_sync_jobs' = Append(running_sync_jobs, pd)
          /\ (jobs[j].pc = "end" /\ jobs'[j] # jobs[j]) =>
                 /\ signal' = <<running_sync_jobs'>>
                 /\ pd \notin SeqToSet(running_sync_jobs')
                 /\ SeqToSet(running_sync_jobs') = SeqToSet(running_sync_jobs) \ {pd}
                 /\ Len(running_sync_jobs') = Len(running_sync_jobs) - 1]_vars

\* the event of the end of one sync while another sync is registered (no
\* job has just been registered, so the event of the last step is that of
\* an end)
C19_Witness ==
    /\ signal = <<running_sync_jobs>>
    /\ running_sync_jobs # <<>>
    /\ \A k \in JobIds : jobs[k].pc # "load"
    /\ \E j \in JobIds :
           /\ jobs[j].outcome = "finished"
           /\ jobs[j].invoked # <<>>
           /\ jobs[j].invoked[Len(jobs[j].invoked)] \notin SeqToSet(running_sync_jobs)

\* the calls of a log with the given operation, in the order they were made
CallsIn(log, op) == SelectSeq(log, LAMBDA call : call[1] = op)

\* C20: a sync resolves the items in the order the provider listed them;
\* its add calls follow that order; every remove call is made after the
\* whole listing was consumed, so after the last add call, and before the
\* cache write, which is the last call of the sync.
C20_DeletionsAfterListing ==
    \A j \in JobIds :
        LET job == jobs[j]
            log == job.log
            done == Len(job.cur_db_ids)
        IN
        /\ done <= Len(job.fetched)
        /\ \A i \in 1..done : job.cur_db_ids[i] = DbIdOf(job.fetched[i])
        /\ job.pc \in RunPcs => job.listing = SubSeq(job.fetched, done + 1, Len(job.fetched))
        /\ job.desc # "tracks" =>
               /\ Len(CallsIn(log, "add")) = done
               /\ \A i \in 1..done : CallsIn(log, "add")[i][2] = job.cur_db_ids[i]
        /\ \A i, k \in 1..Len(log) :
               i < k => /\ ~(log[i][1] = "remove" /\ log[k][1] = "add")
                        /\ log[i][1] # "set"
        /\ (CallsOf(log, "remove") > 0 \/ CallsOf(log, "set") > 0) =>
               /\ job.listing = <<>>
               /\ done = Len(job.fetched)

\* a sync that added two items, removed an id of its prior list and wrote
\* the cache
C20_Witness ==
    \E j \in JobIds :
        /\ jobs[j].pc = "end"
        /\ CallsOf(jobs[j].log, "add") = 2
        /\ CallsOf(jobs[j].log, "remove") > 0
        /\ CallsOf(jobs[j].log, "set") = 1

\* the list a sync of the pair would load from the given cache
PriorSet(c, pd) ==
    IF CacheKey(pd[2], pd[1]) \in DOMAIN c THEN c[CacheKey(pd[2], pd[1])] ELSE <<>>

\* C21: a step of a sync of a pair leaves the cached list of every other
\* pair as it is; the list it loads is the one cached for its own pair; the
\* cache changes only in the step that follows the deletions, which writes
\* the resolved ids under the key of the pair; and a sync writes the cache
\* at most once.
C21_CacheFrame ==
    [][\A j \in JobIds :
          jobs'[j] # jobs[j] =>
              LET job == jobs[j]
                  own == <<job.prov, job.desc>>
              IN
              /\ \A pd \in SyncPairs \ {own} : PriorSet(cache', pd) = PriorSet(cache, pd)
              /\ (job.pc = "load" /\ jobs'[j].pc = "fetch") =>
                     jobs'[j].prev_db_ids = PriorSet(cache, own)
              /\ cache' # cache =>
                     /\ job.pc = "store" /\ jobs'[j].pc = "end"
                     /\ CallsOf(job.log, "set") = 0
                     /\ PriorSet(cache', own) = job.cur_db_ids
              /\ CallsOf(jobs'[j].log, "set") <= 1]_vars

\* a sync wrote the cache while a sync of another pair, which has loaded
\* its list, is still working on its listing
C21_Witness ==
    \E j, k \in JobIds :
        /\ j # k
        /\ <<jobs[j].prov, jobs[j].desc>> # <<jobs[k].prov, jobs[k].desc>>
        /\ jobs[j].pc = "end"
        /\ jobs[j].cur_db_ids # <<>>
        /\ PriorSet(cache, <<jobs[j].prov, jobs[j].desc>>) = jobs[j].cur_db_ids
        /\ jobs[k].pc = "items"
        /\ PriorSet(cache, <<jobs[k].prov, jobs[k].desc>>) = <<>>

====
